---------------------------- MODULE Spec2Model ----------------------------
(***************************************************************************)
(* A model of the Virex ECS data layer: Group membership and its           *)
(* notifications (group.ts, event.ts), the snapshot capture                *)
(* (snapshot.ts, utils.ts), the component registry, Event, Prefab          *)
(* (prefab.ts), the Group overlay and Query.                               *)
(***************************************************************************)
EXTENDS Integers, Sequences, FiniteSets, TLC

(***************************************************************************)
(* Bounds of the model.                                                    *)
(***************************************************************************)
MaxEntity == 2
MaxGroupCalls == 3
MaxConnections == 1
MaxSnapEntity == 2     \* entities of the store a snapshot is taken of
MaxComponent == 2      \* component ids of that store
MaxSnapshotCalls == 1  \* createSnapshot is called at most this many times
MaxComponentCalls == 4 \* component(name) is called at most this many times
MaxMutations == 2      \* writes to the store and the snapshot after a capture
MaxEventCalls == 5     \* calls on the Event that is modelled on its own
MaxPairs == 1          \* pairs in a list given to world.prefab, spawn or extend
MaxPrefabCalls == 2    \* spawn and extend calls on the prefabs
MaxViewCalls == 4      \* calls on a group whose member list is handed out
MaxOverlayCalls == 3   \* calls on a group whose overlay is used
MaxQueries == 4        \* queries made from one base query, the base query included
MaxDepth == 2          \* addEntity/removeEntity calls that are running at one time

EntityIds == 1..MaxEntity
SnapEntityIds == 1..MaxSnapEntity
CompIds == 1..MaxComponent
ComponentNames == {"Position", "Velocity", "Health", "Mana"}
Listeners == {"f", "g"}
FireArgs == {"x", "y"}
PrefabPairs == {<<1, 100>>, <<1, 150>>, <<2, 50>>}
QueryComps == {1, 2}

VARIABLES
    entities,         \* GroupImpl.entities
    onEntityAdded,    \* GroupImpl.onEntityAdded  : an Event
    onEntityRemoved,  \* GroupImpl.onEntityRemoved: an Event
    fired,            \* history: the calls of Event.fire, in order
    heard,            \* what the connected listeners have been called with
    last,             \* history: the last addEntity/removeEntity call
    groupCalls        \* number of addEntity/removeEntity calls so far

VARIABLES
    heap,             \* the Lua heap: the tables and Maps, by reference
    componentsMap,    \* the store: entity -> reference of its component Map
    args,             \* the arguments createSnapshot is called with
    snapshot,         \* what the last createSnapshot call returned
    nextId,           \* utils.ts nextId, the counter of generateId
    osClock,          \* what os.clock() reads
    captured,         \* history: the store as it was when createSnapshot was called
    touched,          \* history: which of "source", "snapshot" was written since
    mutations         \* number of writes to the store and the snapshot so far

VARIABLES
    componentRegistry,   \* name -> id
    nextComponentId,     \* the id the next registration takes
    registered           \* history: the last call of component(name)

VARIABLES
    event,            \* an Event: the keys of its connections map, and its nextId
    callbacks,        \* the callback every id was connected with
    promises,         \* the promises wait() returned, in call order
    fireArgs,         \* history: the argument of every fire call, in order
    fireLast,         \* history: the last fire call
    eventLast,        \* history: the last connect/Disconnect/disconnectAll/wait call
    gone,             \* history: the ids removed from the map so far
    eventCalls        \* number of calls on the event so far

VARIABLES
    world,            \* the World of the prefabs: its live entities and their components
    prefabs,          \* Prefab.components of every prefab, in creation order
    made,             \* history: what every prefab was made from
    spawned,          \* history: the last Prefab.spawn call
    extended,         \* history: the last Prefab.extend call
    prefabCalls       \* number of spawn and extend calls so far

VARIABLES
    returned,         \* the array the last getEntities call returned
    modified,         \* history: the last write of the calling code to that array
    viewCalls,        \* number of getEntities calls and writes to the array so far
    overlay,          \* GroupImpl.components, the overlay map of the group
    recent,           \* history: the most recent set or remove of every component
    overlayLast,      \* history: the last set/get/has/remove call
    overlayCalls      \* number of set/get/has/remove calls so far

VARIABLES
    queries,          \* the queries made so far, each with what its chain was given
    queryLast         \* history: the last with/without call

VARIABLES
    running           \* the addEntity/removeEntity calls that are running, outermost first

groupVars == <<entities, onEntityAdded, onEntityRemoved, fired, heard, last, groupCalls>>
snapVars == <<heap, componentsMap, args, snapshot, nextId, osClock, captured, touched,
              mutations>>

regVars == <<componentRegistry, nextComponentId, registered>>

eventVars == <<event, callbacks, promises, fireArgs, fireLast, eventLast, gone, eventCalls>>

prefabVars == <<world, prefabs, made, spawned, extended, prefabCalls>>

viewVars == <<returned, modified, viewCalls>>
overlayVars == <<overlay, recent, overlayLast, overlayCalls>>

queryVars == <<queries, queryLast>>
callVars == <<running>>

vars == <<groupVars, snapVars, regVars, eventVars, prefabVars, viewVars, overlayVars,
          queryVars, callVars>>

\* What the operations of one part of the library leave alone.
outsideGroup == <<snapVars, regVars, eventVars, prefabVars, viewVars, overlayVars, queryVars, callVars>>
outsideSnapshot == <<groupVars, regVars, eventVars, prefabVars, viewVars, overlayVars, queryVars, callVars>>
outsideRegistry == <<groupVars, snapVars, eventVars, prefabVars, viewVars, overlayVars, queryVars, callVars>>
outsideEvent == <<groupVars, snapVars, regVars, prefabVars, viewVars, overlayVars, queryVars, callVars>>
outsideQuery == <<groupVars, snapVars, regVars, eventVars, prefabVars, viewVars, overlayVars, callVars>>
outsidePrefab == <<groupVars, snapVars, regVars, eventVars, viewVars, overlayVars, queryVars, callVars>>
outsideCall == <<snapVars, regVars, eventVars, prefabVars, viewVars, overlayVars, queryVars>>

(***************************************************************************)
(* Helpers.                                                                *)
(***************************************************************************)
Range(s) == {s[i] : i \in DOMAIN s}

\* All orders in which the elements of the finite set S can be enumerated.
Orders(S) == {s \in [1..Cardinality(S) -> S] : Range(s) = S}

\* The entries of the log s whose argument is e, in order.
RECURSIVE SelectArg(_, _)
SelectArg(s, e) ==
    IF s = <<>> THEN <<>>
    ELSE IF Head(s).arg = e THEN <<Head(s)>> \o SelectArg(Tail(s), e)
         ELSE SelectArg(Tail(s), e)

(***************************************************************************)
(* Event (event.ts).  An event is its connections map and its id counter.  *)
(***************************************************************************)
NewEvent == [connections |-> {}, nextId |-> 0]

\* Event.connect: the connection takes the id nextId++.
connect(ev) == [connections |-> ev.connections \cup {ev.nextId}, nextId |-> ev.nextId + 1]

\* A slip of Disconnect: every connection is removed.
DisconnectClears(ev, id) == [ev EXCEPT !.connections = {}]

\* The Disconnect of the handle connect returned for id.
Disconnect(ev, id) == [ev EXCEPT !.connections = @ \ {id}]

\* Event.fire: every connection's callback is called with the argument.  The
\* map is walked by forEach, whose order over the keys is not specified: the
\* result is any of the logs a walk can leave.
fire(ev, name, arg, log) ==
    {log \o [i \in 1..Len(o) |-> [ev |-> name, conn |-> o[i], arg |-> arg]] :
        o \in Orders(ev.connections)}

(***************************************************************************)
(* Group (group.ts).                                                       *)
(***************************************************************************)
GroupInit ==
    /\ entities = {}
    /\ onEntityAdded = NewEvent
    /\ onEntityRemoved = NewEvent
    /\ fired = <<>>
    /\ heard = <<>>
    /\ last = [op |-> "none", e |-> 0, members |-> {}, fired |-> <<>>, heard |-> <<>>,
               added |-> {}, removed |-> {}]
    /\ groupCalls = 0

Called(op, e) ==
    /\ last' = [op |-> op, e |-> e, members |-> entities, fired |-> fired, heard |-> heard,
                added |-> onEntityAdded.connections, removed |-> onEntityRemoved.connections]
    /\ groupCalls' = groupCalls + 1

\* A slip of addEntity: the notification is fired on every call.
addEntityAlwaysFires(e) ==
    /\ groupCalls < MaxGroupCalls
    /\ entities' = entities \cup {e}
    /\ fired' = Append(fired, [ev |-> "added", arg |-> e])
    /\ heard' \in fire(onEntityAdded, "added", e, heard)
    /\ Called("addEntity", e)
    /\ UNCHANGED <<onEntityAdded, onEntityRemoved>>
    /\ UNCHANGED outsideGroup

addEntity(e) ==
    /\ groupCalls < MaxGroupCalls
    /\ IF e \notin entities
       THEN /\ entities' = entities \cup {e}
            /\ fired' = Append(fired, [ev |-> "added", arg |-> e])
            /\ heard' \in fire(onEntityAdded, "added", e, heard)
       ELSE UNCHANGED <<entities, fired, heard>>
    /\ Called("addEntity", e)
    /\ UNCHANGED <<onEntityAdded, onEntityRemoved>>
    /\ UNCHANGED outsideGroup

\* A slip of removeEntity: the notification does not depend on what delete returned.
removeEntityAlwaysFires(e) ==
    /\ groupCalls < MaxGroupCalls
    /\ entities' = entities \ {e}
    /\ fired' = Append(fired, [ev |-> "removed", arg |-> e])
    /\ heard' \in fire(onEntityRemoved, "removed", e, heard)
    /\ Called("removeEntity", e)
    /\ UNCHANGED <<onEntityAdded, onEntityRemoved>>
    /\ UNCHANGED outsideGroup

\* A slip of removeEntity: the notification is fired but the member is kept.
removeEntityKeepsMember(e) ==
    /\ groupCalls < MaxGroupCalls
    /\ IF e \in entities
       THEN /\ entities' = entities
            /\ fired' = Append(fired, [ev |-> "removed", arg |-> e])
            /\ heard' \in fire(onEntityRemoved, "removed", e, heard)
       ELSE UNCHANGED <<entities, fired, heard>>
    /\ Called("removeEntity", e)
    /\ UNCHANGED <<onEntityAdded, onEntityRemoved>>
    /\ UNCHANGED outsideGroup

removeEntity(e) ==
    /\ groupCalls < MaxGroupCalls
    /\ IF e \in entities
       THEN /\ entities' = entities \ {e}
            /\ fired' = Append(fired, [ev |-> "removed", arg |-> e])
            /\ heard' \in fire(onEntityRemoved, "removed", e, heard)
       ELSE UNCHANGED <<entities, fired, heard>>
    /\ Called("removeEntity", e)
    /\ UNCHANGED <<onEntityAdded, onEntityRemoved>>
    /\ UNCHANGED outsideGroup

hasEntity(e) == e \in entities

\* A listener subscribes to onEntityAdded.
ConnectAdded ==
    /\ onEntityAdded.nextId < MaxConnections
    /\ onEntityAdded' = connect(onEntityAdded)
    /\ UNCHANGED <<entities, onEntityRemoved, fired, heard, last, groupCalls>>
    /\ UNCHANGED outsideGroup

\* A listener subscribes to onEntityRemoved.
ConnectRemoved ==
    /\ onEntityRemoved.nextId < MaxConnections
    /\ onEntityRemoved' = connect(onEntityRemoved)
    /\ UNCHANGED <<entities, onEntityAdded, fired, heard, last, groupCalls>>
    /\ UNCHANGED outsideGroup

\* A listener of onEntityAdded disconnects.
DisconnectAdded(id) ==
    /\ id \in onEntityAdded.connections
    /\ onEntityAdded' = Disconnect(onEntityAdded, id)
    /\ UNCHANGED <<entities, onEntityRemoved, fired, heard, last, groupCalls>>
    /\ UNCHANGED outsideGroup

\* A listener of onEntityRemoved disconnects.
DisconnectRemoved(id) ==
    /\ id \in onEntityRemoved.connections
    /\ onEntityRemoved' = Disconnect(onEntityRemoved, id)
    /\ UNCHANGED <<entities, onEntityAdded, fired, heard, last, groupCalls>>
    /\ UNCHANGED outsideGroup

(***************************************************************************)
(* Values and the heap.  A component value is a number, a value JSON has   *)
(* no form for (a userdata such as a Vector3 or an Instance), or a         *)
(* reference to a table.  A heap object is a table (one optional field,    *)
(* key 1) or a Map (keys are component ids); a Lua table holds no nil, so  *)
(* storing nil under a key removes the key.                                *)
(***************************************************************************)
Nil == [k |-> "nil", v |-> 0]
Num(n) == [k |-> "num", v |-> n]
Userdata == [k |-> "userdata", v |-> 0]
Ref(r) == [k |-> "ref", v |-> r]

Table(f) == [kind |-> "table", f |-> f]
NewMap == [kind |-> "map", f |-> <<>>]

\* map.set(key, val) / table[key] = val of Lua, on the object's fields f.
MapSet(f, key, val) ==
    IF val.k = "nil"
    THEN [x \in DOMAIN f \ {key} |-> f[x]]
    ELSE [x \in DOMAIN f \cup {key} |-> IF x = key THEN val ELSE f[x]]

\* map.delete(key)
MapDelete(f, key) == [x \in DOMAIN f \ {key} |-> f[x]]

\* The ascending enumeration of a finite set of integers.
RECURSIVE Ascending(_)
Ascending(S) ==
    IF S = {} THEN <<>>
    ELSE LET m == CHOOSE x \in S : \A y \in S : x <= y
         IN <<m>> \o Ascending(S \ {m})

(***************************************************************************)
(* deepClone (utils.ts): JSONDecode(JSONEncode(obj)).  The JSON text is    *)
(* kept as its tree: null, a number, or an object of fields.               *)
(***************************************************************************)
JsonNull == [k |-> "null", n |-> 0, f |-> <<>>]

\* HttpService:JSONEncode: a number is written as it is, a table as an object
\* of its encoded fields, and a value JSON has no form for as null.
RECURSIVE JSONEncode(_, _)
JSONEncode(h, val) ==
    CASE val.k = "num" -> [k |-> "num", n |-> val.v, f |-> <<>>]
      [] val.k = "ref" ->
            [k |-> "obj", n |-> 0,
             f |-> [x \in DOMAIN h[val.v].f |-> JSONEncode(h, h[val.v].f[x])]]
      [] OTHER -> JsonNull

\* HttpService:JSONDecode: null is nil, an object is a new table whose null
\* fields are absent.  The result is the heap after the allocations and the value.
RECURSIVE JSONDecode(_, _)
JSONDecode(h, j) ==
    CASE j.k = "null" -> [heap |-> h, val |-> Nil]
      [] j.k = "num" -> [heap |-> h, val |-> Num(j.n)]
      [] j.k = "obj" ->
            IF DOMAIN j.f = {}
            THEN [heap |-> Append(h, Table(<<>>)), val |-> Ref(Len(h) + 1)]
            ELSE LET d == JSONDecode(h, j.f[1])
                 IN [heap |-> Append(d.heap, Table(MapSet(<<>>, 1, d.val))),
                     val |-> Ref(Len(d.heap) + 1)]

\* A slip of deepClone: the object itself is returned.
deepCloneShares(h, val) == [heap |-> h, val |-> val]

deepClone(h, val) == JSONDecode(h, JSONEncode(h, val))

(***************************************************************************)
(* createSnapshot (snapshot.ts).                                           *)
(***************************************************************************)
NoFilter == [given |-> FALSE, ids |-> <<>>]
Filter(ids) == [given |-> TRUE, ids |-> ids]

\* components && components.size() > 0
Filtering(components) == components.given /\ Len(components.ids) > 0

\* The two inner loops: for each id of ids that comps has, the clone of its
\* value is set in the Map at reference m.
RECURSIVE CloneInto(_, _, _, _)
CloneInto(h, comps, ids, m) ==
    IF ids = <<>> THEN h
    ELSE LET id == Head(ids) IN
         IF id \in DOMAIN comps
         THEN LET d == deepClone(h, comps[id])
              IN CloneInto([d.heap EXCEPT ![m].f = MapSet(@, id, d.val)], comps, Tail(ids), m)
         ELSE CloneInto(h, comps, Tail(ids), m)

\* A slip of the guard: an entity whose Map is missing or empty has no components.
MissingOrEmptyComps(h, cmap, entity) ==
    entity \notin DOMAIN cmap \/ DOMAIN h[cmap[entity]].f = {}

\* const comps = componentsMap.get(entity); if (!comps): a Map, even an empty
\* one, is a table and so is true; only a missing entry is not.
MissingComps(h, cmap, entity) == entity \notin DOMAIN cmap

RECURSIVE SnapshotLoop(_, _, _, _, _)

\* A slip of the return: the entity is skipped and the loop goes on.
ContinueLoop(h, order, cmap, components, entityStates) ==
    SnapshotLoop(h, Tail(order), cmap, components, entityStates)

\* return; inside the loop: createSnapshot returns undefined.
ReturnAbsent(h, order, cmap, components, entityStates) ==
    [ret |-> "absent", heap |-> h, entityStates |-> <<>>]

\* The loop over the entities, in the order the set is walked: the first
\* entity without a Map ends the capture; what the loop has allocated stays
\* on the heap.
SnapshotLoop(h, order, cmap, components, entityStates) ==
    IF order = <<>> THEN [ret |-> "snapshot", heap |-> h, entityStates |-> entityStates]
    ELSE LET entity == Head(order) IN
         IF MissingComps(h, cmap, entity)
         THEN ReturnAbsent(h, order, cmap, components, entityStates)
         ELSE LET comps == h[cmap[entity]].f
                  cloned == Len(h) + 1
                  h1 == Append(h, NewMap)
              IN IF Filtering(components)
                 THEN LET h2 == CloneInto(h1, comps, components.ids, cloned)
                      IN SnapshotLoop(h2, Tail(order), cmap, components,
                            IF DOMAIN h2[cloned].f # {}
                            THEN MapSet(entityStates, entity, Ref(cloned))
                            ELSE entityStates)
                 ELSE LET h2 == CloneInto(h1, comps, Ascending(DOMAIN comps), cloned)
                      IN SnapshotLoop(h2, Tail(order), cmap, components,
                            MapSet(entityStates, entity, Ref(cloned)))

NoSnapshot == [ret |-> "none", id |-> 0, timestamp |-> 0, entityStates |-> <<>>, components |-> NoFilter]
Absent == [ret |-> "absent", id |-> 0, timestamp |-> 0, entityStates |-> <<>>, components |-> NoFilter]

\* The deep value of a value: what it holds, whatever the references are.
RECURSIVE Deep(_, _)
Deep(h, val) ==
    IF val.k = "ref"
    THEN [k |-> "table", n |-> 0, f |-> [x \in DOMAIN h[val.v].f |-> Deep(h, h[val.v].f[x])]]
    ELSE [k |-> val.k, n |-> val.v, f |-> <<>>]

\* The deep value of a Map of Maps: entity -> component id -> deep value.
DeepStates(h, states) ==
    [e \in DOMAIN states |->
        [c \in DOMAIN h[states[e].v].f |-> Deep(h, h[states[e].v].f[c])]]

\* createSnapshot(entities, componentsMap, components), the set entities
\* being walked in the order args.order; the timestamp is the clock's reading,
\* and the clock advances by one with every call.
createSnapshot ==
    /\ captured.calls < MaxSnapshotCalls
    /\ LET r == SnapshotLoop(heap, args.order, componentsMap, args.components, <<>>) IN
        /\ heap' = r.heap
        /\ IF r.ret = "absent"
           THEN /\ snapshot' = Absent
                /\ nextId' = nextId
           ELSE /\ snapshot' = [ret |-> "snapshot", id |-> nextId, timestamp |-> osClock,
                                entityStates |-> r.entityStates,
                                components |-> args.components]
                /\ nextId' = nextId + 1
        /\ captured' = [calls |-> captured.calls + 1,
                        order |-> args.order,
                        components |-> args.components,
                        store |-> DeepStates(heap, [e \in DOMAIN componentsMap |-> Ref(componentsMap[e])]),
                        recorded |-> DeepStates(r.heap, r.entityStates)]
        /\ osClock' = osClock + 1
        /\ touched' = {}
    /\ UNCHANGED <<componentsMap, args, mutations>>
    /\ UNCHANGED outsideSnapshot

(***************************************************************************)
(* Writes of the calling code after a capture: to the component Maps of    *)
(* the store and to the tables they hold, and to the Maps of the snapshot  *)
(* and the tables they hold.                                               *)
(***************************************************************************)
\* The tables a value reaches.
RECURSIVE TablesOf(_, _)
TablesOf(h, val) ==
    IF val.k = "ref"
    THEN {val.v} \cup UNION {TablesOf(h, h[val.v].f[x]) : x \in DOMAIN h[val.v].f}
    ELSE {}

SourceTables ==
    UNION {UNION {TablesOf(heap, heap[componentsMap[e]].f[c]) :
                    c \in DOMAIN heap[componentsMap[e]].f} :
            e \in DOMAIN componentsMap}

SnapshotTables ==
    UNION {UNION {TablesOf(heap, heap[snapshot.entityStates[e].v].f[c]) :
                    c \in DOMAIN heap[snapshot.entityStates[e].v].f} :
            e \in DOMAIN snapshot.entityStates}

DeepStore == DeepStates(heap, [e \in DOMAIN componentsMap |-> Ref(componentsMap[e])])

Mutated(what) ==
    /\ touched' = touched \cup {what}
    /\ mutations' = mutations + 1
    /\ UNCHANGED <<componentsMap, args, snapshot, nextId, osClock, captured>>
    /\ UNCHANGED outsideSnapshot

MayMutate == snapshot.ret = "snapshot" /\ mutations < MaxMutations

\* componentsMap.get(e).set(c, 0): a component of the store is set or overwritten.
SourceMapSet(e, c) ==
    /\ MayMutate
    /\ e \in DOMAIN componentsMap
    /\ heap' = [heap EXCEPT ![componentsMap[e]].f = MapSet(@, c, Num(0))]
    /\ Mutated("source")

\* componentsMap.get(e).delete(c): a component of the store is removed.
SourceMapDelete(e, c) ==
    /\ MayMutate
    /\ e \in DOMAIN componentsMap
    /\ c \in DOMAIN heap[componentsMap[e]].f
    /\ heap' = [heap EXCEPT ![componentsMap[e]].f = MapDelete(@, c)]
    /\ Mutated("source")

\* A table a component of the store holds is written in place.
SourceValueWrite(r, val) ==
    /\ MayMutate
    /\ r \in SourceTables
    /\ heap' = [heap EXCEPT ![r].f = MapSet(@, 1, val)]
    /\ Mutated("source")

\* snapshot.entityStates.get(e).set(c, 0)
SnapshotMapSet(e, c) ==
    /\ MayMutate
    /\ e \in DOMAIN snapshot.entityStates
    /\ heap' = [heap EXCEPT ![snapshot.entityStates[e].v].f = MapSet(@, c, Num(0))]
    /\ Mutated("snapshot")

\* snapshot.entityStates.get(e).delete(c)
SnapshotMapDelete(e, c) ==
    /\ MayMutate
    /\ e \in DOMAIN snapshot.entityStates
    /\ c \in DOMAIN heap[snapshot.entityStates[e].v].f
    /\ heap' = [heap EXCEPT ![snapshot.entityStates[e].v].f = MapDelete(@, c)]
    /\ Mutated("snapshot")

\* A table a component of the snapshot holds is written in place.
SnapshotValueWrite(r, val) ==
    /\ MayMutate
    /\ r \in SnapshotTables
    /\ heap' = [heap EXCEPT ![r].f = MapSet(@, 1, val)]
    /\ Mutated("snapshot")

(***************************************************************************)
(* The stores a snapshot is taken of.  Every entity has no Map, or a Map   *)
(* with any of the components; the value of component c of entity e is     *)
(* fixed by (e, c), so that all kinds of values occur: a number, a table   *)
(* holding a table holding a number, a userdata, a table holding a         *)
(* userdata.  The tables of slot (e, c) are the heap objects 2s+1 and      *)
(* 2s+2, the Maps follow them.                                             *)
(***************************************************************************)
Slot(e, c) == (e - 1) * MaxComponent + (c - 1)
Slots == MaxSnapEntity * MaxComponent
KindOf(e, c) == Slot(e, c) % 4
MapRef(e) == 2 * Slots + e

InitValue(e, c) ==
    CASE KindOf(e, c) = 0 -> Num(10 * e + c)
      [] KindOf(e, c) = 2 -> Userdata
      [] OTHER -> Ref(2 * Slot(e, c) + 1)

InitHeap(shape) ==
    [r \in 1..(2 * Slots + MaxSnapEntity) |->
        IF r > 2 * Slots
        THEN [kind |-> "map",
              f |-> [c \in shape[r - 2 * Slots].comps |-> InitValue(r - 2 * Slots, c)]]
        ELSE LET s == (r - 1) \div 2
                 e == (s \div MaxComponent) + 1
                 c == (s % MaxComponent) + 1
             IN CASE KindOf(e, c) = 1 /\ r % 2 = 1 -> Table(<<Ref(r + 1)>>)
                  [] KindOf(e, c) = 1 /\ r % 2 = 0 -> Table(<<Num(10 * e + c)>>)
                  [] KindOf(e, c) = 3 /\ r % 2 = 1 -> Table(<<Userdata>>)
                  [] OTHER -> Table(<<>>)]

Shapes ==
    [SnapEntityIds -> {[has |-> FALSE, comps |-> {}]}
                        \cup {[has |-> TRUE, comps |-> cs] : cs \in SUBSET CompIds}]

\* The orders a Set of entities can be walked in, and the filter lists: the
\* lists without a repetition, and the lists that name one id twice.
EntityOrders == UNION {Orders(S) : S \in SUBSET SnapEntityIds}
FilterLists ==
    {ids \in UNION {[1..n -> CompIds] : n \in 0..MaxComponent} :
        \A i, j \in DOMAIN ids : ids[i] = ids[j] => i = j}
    \cup {<<c, c>> : c \in CompIds}
Filters == {NoFilter} \cup {Filter(ids) : ids \in FilterLists}

StoreInit(shape) ==
    /\ heap = InitHeap(shape)
    /\ componentsMap = [e \in {x \in SnapEntityIds : shape[x].has} |-> MapRef(e)]
    /\ snapshot = NoSnapshot
    /\ nextId = 1
    /\ osClock = 0
    /\ captured = [calls |-> 0, order |-> <<>>, components |-> NoFilter, store |-> <<>>,
                   recorded |-> <<>>]
    /\ touched = {}
    /\ mutations = 0

\* No store: the state of the snapshot variables where no snapshot is taken.
SnapIdle ==
    /\ StoreInit([e \in SnapEntityIds |-> [has |-> FALSE, comps |-> {}]])
    /\ args = [order |-> <<>>, components |-> NoFilter]

SnapInit ==
    /\ \E shape \in Shapes : StoreInit(shape)
    /\ args \in [order : EntityOrders, components : Filters]

\* The store and arguments of the captures that are written to afterwards:
\* every entity holds every component and is captured, with no filter or
\* with a filter that lists all components.
IndependenceSnapInit ==
    /\ StoreInit([e \in SnapEntityIds |-> [has |-> TRUE, comps |-> CompIds]])
    /\ args \in [order : {Ascending(SnapEntityIds)},
                 components : {NoFilter, Filter(Ascending(CompIds))}]

(***************************************************************************)
(* The component registry.                                                 *)
(***************************************************************************)
RegInit ==
    /\ componentRegistry = <<>>
    /\ nextComponentId = 1
    /\ registered = [calls |-> 0, name |-> "", outcome |-> "none", id |-> 0,
                     registry |-> <<>>, nextComponentId |-> 1]

\* componentRegistry.set(name, id)
RegistrySet(reg, name, id) ==
    [x \in DOMAIN reg \cup {name} |-> IF x = name THEN id ELSE reg[x]]

\* A slip of component: the id is taken before the name is looked up.
componentCountsFirst(name) ==
    /\ registered.calls < MaxComponentCalls
    /\ nextComponentId' = nextComponentId + 1
    /\ IF name \in DOMAIN componentRegistry
       THEN /\ registered' = [calls |-> registered.calls + 1, name |-> name, outcome |-> "error",
                              id |-> 0,
                              registry |-> componentRegistry,
                              nextComponentId |-> nextComponentId]
            /\ UNCHANGED componentRegistry
       ELSE /\ componentRegistry' = RegistrySet(componentRegistry, name, nextComponentId)
            /\ registered' = [calls |-> registered.calls + 1, name |-> name, outcome |-> "id",
                              id |-> nextComponentId,
                              registry |-> componentRegistry,
                              nextComponentId |-> nextComponentId]
    /\ UNCHANGED outsideRegistry

\* A slip of component: the counter is not advanced.
componentKeepsCounter(name) ==
    /\ registered.calls < MaxComponentCalls
    /\ IF name \in DOMAIN componentRegistry
       THEN /\ registered' = [calls |-> registered.calls + 1, name |-> name, outcome |-> "error",
                              id |-> 0,
                              registry |-> componentRegistry,
                              nextComponentId |-> nextComponentId]
            /\ UNCHANGED <<componentRegistry, nextComponentId>>
       ELSE /\ componentRegistry' = RegistrySet(componentRegistry, name, nextComponentId)
            /\ nextComponentId' = nextComponentId
            /\ registered' = [calls |-> registered.calls + 1, name |-> name, outcome |-> "id",
                              id |-> nextComponentId,
                              registry |-> componentRegistry,
                              nextComponentId |-> nextComponentId]
    /\ UNCHANGED outsideRegistry

\* component(name): error() raises, and nothing after it runs.
component(name) ==
    /\ registered.calls < MaxComponentCalls
    /\ IF name \in DOMAIN componentRegistry
       THEN /\ registered' = [calls |-> registered.calls + 1, name |-> name, outcome |-> "error",
                              id |-> 0,
                              registry |-> componentRegistry,
                              nextComponentId |-> nextComponentId]
            /\ UNCHANGED <<componentRegistry, nextComponentId>>
       ELSE /\ componentRegistry' = RegistrySet(componentRegistry, name, nextComponentId)
            /\ nextComponentId' = nextComponentId + 1
            /\ registered' = [calls |-> registered.calls + 1, name |-> name, outcome |-> "id",
                              id |-> nextComponentId,
                              registry |-> componentRegistry,
                              nextComponentId |-> nextComponentId]
    /\ UNCHANGED outsideRegistry

(***************************************************************************)
(* An Event on its own (event.ts): the callbacks connected by connect and  *)
(* by wait, the handles connect returned, the promises wait returned.  A   *)
(* callback is a function of the calling code (wait = 0), or the callback  *)
(* wait() connects for its promise (wait = the promise).                   *)
(***************************************************************************)
getConnectionCount(ev) == Cardinality(ev.connections)

\* A slip of disconnectAll: the ids start again at 0.
disconnectAllResetsIds(ev) == [connections |-> {}, nextId |-> 0]

disconnectAll(ev) == [ev EXCEPT !.connections = {}]

NewPromise(id) ==
    [conn |-> id, firesAtWait |-> Len(fireArgs), countBefore |-> getConnectionCount(event),
     undisturbed |-> TRUE, cleared |-> FALSE,
     state |-> "pending", value |-> "none", resolvedAt |-> 0, resolveCalls |-> 0]

\* resolve(args), called in the n-th fire: only a pending promise takes the value.
resolve(p, n, arg) ==
    [p EXCEPT !.state = "resolved",
              !.value = IF p.state = "pending" THEN arg ELSE @,
              !.resolvedAt = IF p.state = "pending" THEN n ELSE @,
              !.resolveCalls = @ + 1]

\* A slip of the callback of wait(): it resolves, and stays connected.
InvokeStaysConnected(w, id, n, arg) ==
    LET cb == callbacks[id]
        called == Append(w.invoked, [conn |-> id, fn |-> cb.fn, arg |-> arg])
    IN  IF cb.wait = 0
        THEN [w EXCEPT !.invoked = called]
        ELSE [event |-> w.event,
              promises |-> [w.promises EXCEPT ![cb.wait] = resolve(@, n, arg)],
              invoked |-> called]

\* cb(...args) for the callback of connection id, in the n-th fire.  The
\* callback of wait() disconnects itself and resolves its promise.
Invoke(w, id, n, arg) ==
    LET cb == callbacks[id]
        called == Append(w.invoked, [conn |-> id, fn |-> cb.fn, arg |-> arg])
    IN  IF cb.wait = 0
        THEN [w EXCEPT !.invoked = called]
        ELSE [event |-> Disconnect(w.event, id),
              promises |-> [w.promises EXCEPT ![cb.wait] = resolve(@, n, arg)],
              invoked |-> called]

\* A slip of the walk: it ends when a callback has removed a connection.
RECURSIVE forEachEndsAtRemoval(_, _, _, _)
forEachEndsAtRemoval(order, w, n, arg) ==
    IF order = <<>> THEN w
    ELSE LET v == IF Head(order) \in w.event.connections
                  THEN Invoke(w, Head(order), n, arg) ELSE w
         IN  IF v.event.connections # w.event.connections THEN v
             ELSE forEachEndsAtRemoval(Tail(order), v, n, arg)

\* connections.forEach of fire, the keys met in the given order: a key
\* removed before the walk reaches it is not met.
RECURSIVE forEach(_, _, _, _)
forEach(order, w, n, arg) ==
    IF order = <<>> THEN w
    ELSE forEach(Tail(order),
                 IF Head(order) \in w.event.connections
                 THEN Invoke(w, Head(order), n, arg) ELSE w,
                 n, arg)

EventIdle ==
    /\ event = NewEvent
    /\ callbacks = [i \in {} |-> 0]
    /\ promises = <<>>
    /\ fireArgs = <<>>
    /\ fireLast = [n |-> 0, arg |-> "none", connections |-> {}, gone |-> {}, invoked |-> <<>>,
                   after |-> {}]
    /\ eventLast = [op |-> "none", id |-> 0, before |-> {}, after |-> {}]
    /\ gone = {}
    /\ eventCalls = 0

\* History: a call that changes who is connected.
Disturbed(op, id, cleared) ==
    /\ promises' = [k \in DOMAIN promises |->
                      [promises[k] EXCEPT !.undisturbed = FALSE,
                                          !.cleared = @ \/ promises[k].conn \in cleared]]
    /\ eventLast' = [op |-> op, id |-> id, before |-> event.connections,
                     after |-> event'.connections]
    /\ gone' = gone \cup (event.connections \ event'.connections)
    /\ eventCalls' = eventCalls + 1

\* event.connect(fn), for a function fn of the calling code.
EventConnect(fn) ==
    /\ eventCalls < MaxEventCalls
    /\ event' = connect(event)
    /\ callbacks' = [i \in 0..event.nextId |->
                       IF i = event.nextId THEN [fn |-> fn, wait |-> 0] ELSE callbacks[i]]
    /\ Disturbed("connect", event.nextId, {})
    /\ UNCHANGED <<fireArgs, fireLast>>
    /\ UNCHANGED outsideEvent

\* handle.Disconnect(), for the handle connect returned for id; the handle
\* stays with the calling code after its connection is gone.
EventDisconnect(id) ==
    /\ eventCalls < MaxEventCalls
    /\ id \in DOMAIN callbacks
    /\ callbacks[id].wait = 0
    /\ event' = Disconnect(event, id)
    /\ Disturbed("Disconnect", id, {})
    /\ UNCHANGED <<callbacks, fireArgs, fireLast>>
    /\ UNCHANGED outsideEvent

\* event.disconnectAll().
EventDisconnectAll ==
    /\ eventCalls < MaxEventCalls
    /\ event' = disconnectAll(event)
    /\ Disturbed("disconnectAll", 0, event.connections)
    /\ UNCHANGED <<callbacks, fireArgs, fireLast>>
    /\ UNCHANGED outsideEvent

\* event.wait(): the executor of the promise runs at once and connects.
EventWait ==
    /\ eventCalls < MaxEventCalls
    /\ event' = connect(event)
    /\ callbacks' = [i \in 0..event.nextId |->
                       IF i = event.nextId THEN [fn |-> "wait", wait |-> Len(promises) + 1]
                       ELSE callbacks[i]]
    /\ promises' = Append([k \in DOMAIN promises |-> [promises[k] EXCEPT !.undisturbed = FALSE]],
                          NewPromise(event.nextId))
    /\ eventLast' = [op |-> "wait", id |-> event.nextId, before |-> event.connections,
                     after |-> event'.connections]
    /\ eventCalls' = eventCalls + 1
    /\ UNCHANGED <<fireArgs, fireLast, gone>>
    /\ UNCHANGED outsideEvent

\* event.fire(arg).
EventFire(arg) ==
    /\ eventCalls < MaxEventCalls
    /\ \E order \in Orders(event.connections) :
         LET n == Len(fireArgs) + 1
             w == forEach(order, [event |-> event, promises |-> promises, invoked |-> <<>>],
                          n, arg)
         IN  /\ event' = w.event
             /\ promises' = w.promises
             /\ fireLast' = [n |-> n, arg |-> arg, connections |-> event.connections,
                             gone |-> gone, invoked |-> w.invoked,
                             after |-> w.event.connections]
             /\ gone' = gone \cup (event.connections \ w.event.connections)
    /\ fireArgs' = Append(fireArgs, arg)
    /\ eventCalls' = eventCalls + 1
    /\ UNCHANGED <<callbacks, eventLast>>
    /\ UNCHANGED outsideEvent

(***************************************************************************)
(* Prefab (prefab.ts) on a World.  The World is the Entity Store: spawn    *)
(* registers a fresh id as live with an empty component map, set inserts   *)
(* or overwrites the value of a component of an entity.                    *)
(***************************************************************************)
NewWorld == [next |-> 1, live |-> {}, components |-> [e \in {} |-> 0]]

\* world.spawn(): the world after the call; the new entity is w.next.
WorldSpawn(w) ==
    [next |-> w.next + 1,
     live |-> w.live \cup {w.next},
     components |-> [e \in w.live \cup {w.next} |->
                       IF e = w.next THEN [c \in {} |-> 0] ELSE w.components[e]]]

\* world.set(e, c, value).
WorldSet(w, e, c, value) ==
    [w EXCEPT !.components[e] =
        [d \in DOMAIN w.components[e] \cup {c} |-> IF d = c THEN value ELSE w.components[e][d]]]

\* for (const [component, value] of pairs) world.set(entity, component, value)
RECURSIVE SetEach(_, _, _)
SetEach(w, e, pairs) ==
    IF pairs = <<>> THEN w
    ELSE SetEach(WorldSet(w, e, Head(pairs)[1], Head(pairs)[2]), e, Tail(pairs))

\* The lists of pairs the calling code gives.
PairLists == UNION {[1..n -> PrefabPairs] : n \in 0..MaxPairs}

PrefabIdle ==
    /\ world = NewWorld
    /\ prefabs = <<>>
    /\ made = <<>>
    /\ spawned = [prefab |-> 0, overrides |-> <<>>, entity |-> 0, before |-> NewWorld,
                  after |-> NewWorld]
    /\ extended = [prefab |-> 0, additional |-> <<>>, before |-> <<>>]
    /\ prefabCalls = 0

\* world.prefab(template): new Prefab(world, template), on a new world.
PrefabInit ==
    /\ world = NewWorld
    /\ \E template \in PairLists :
         /\ prefabs = <<template>>
         /\ made = <<[from |-> 0, components |-> template, additional |-> <<>>]>>
    /\ spawned = [prefab |-> 0, overrides |-> <<>>, entity |-> 0, before |-> NewWorld,
                  after |-> NewWorld]
    /\ extended = [prefab |-> 0, additional |-> <<>>, before |-> <<>>]
    /\ prefabCalls = 0

\* A slip of spawn: the overrides are applied before the template.
spawnOverridesFirst(p, overrides) ==
    /\ prefabCalls < MaxPrefabCalls
    /\ world' = SetEach(SetEach(WorldSpawn(world), world.next, overrides),
                        world.next, prefabs[p])
    /\ spawned' = [prefab |-> p, overrides |-> overrides, entity |-> world.next,
                   before |-> world, after |-> world']
    /\ prefabCalls' = prefabCalls + 1
    /\ UNCHANGED <<prefabs, made, extended>>
    /\ UNCHANGED outsidePrefab

\* prefab.spawn(overrides), for the prefab p.
spawn(p, overrides) ==
    /\ prefabCalls < MaxPrefabCalls
    /\ world' = SetEach(SetEach(WorldSpawn(world), world.next, prefabs[p]),
                        world.next, overrides)
    /\ spawned' = [prefab |-> p, overrides |-> overrides, entity |-> world.next,
                   before |-> world, after |-> world']
    /\ prefabCalls' = prefabCalls + 1
    /\ UNCHANGED <<prefabs, made, extended>>
    /\ UNCHANGED outsidePrefab

\* A slip of extend: the pairs are pushed onto the array of the receiver,
\* and the new prefab is given that array.
extendInPlace(p, additional) ==
    /\ prefabCalls < MaxPrefabCalls
    /\ prefabs' = Append([prefabs EXCEPT ![p] = @ \o additional], prefabs[p] \o additional)
    /\ made' = Append(made, [from |-> p, components |-> prefabs[p] \o additional,
                             additional |-> additional])
    /\ extended' = [prefab |-> p, additional |-> additional, before |-> prefabs]
    /\ prefabCalls' = prefabCalls + 1
    /\ UNCHANGED <<world, spawned>>
    /\ UNCHANGED outsidePrefab

\* prefab.extend(additional), for the prefab p: the new prefab has an array
\* of its own.
extend(p, additional) ==
    /\ prefabCalls < MaxPrefabCalls
    /\ prefabs' = Append(prefabs, prefabs[p] \o additional)
    /\ made' = Append(made, [from |-> p, components |-> prefabs[p] \o additional,
                             additional |-> additional])
    /\ extended' = [prefab |-> p, additional |-> additional, before |-> prefabs]
    /\ prefabCalls' = prefabCalls + 1
    /\ UNCHANGED <<world, spawned>>
    /\ UNCHANGED outsidePrefab

(***************************************************************************)
(* Group (group.ts): the member list getEntities hands out, and the        *)
(* overlay map.  What getEntities returns is a reference: to an array of   *)
(* its own ("copy"), or to the collection of the group ("entities").       *)
(***************************************************************************)
ViewIdle ==
    /\ returned = [ref |-> "none", items |-> <<>>, members |-> {}, written |-> FALSE]
    /\ modified = [before |-> {}, after |-> {}, firedBefore |-> <<>>, firedAfter |-> <<>>]
    /\ viewCalls = 0

\* A slip of getEntities: the collection of the group itself is returned.
getEntitiesLive ==
    /\ groupCalls + viewCalls < MaxViewCalls
    /\ \E order \in Orders(entities) :
         returned' = [ref |-> "entities", items |-> order, members |-> entities,
                      written |-> FALSE]
    /\ viewCalls' = viewCalls + 1
    /\ UNCHANGED <<groupVars, modified>>
    /\ UNCHANGED <<snapVars, regVars, eventVars, prefabVars, overlayVars, queryVars, callVars>>

\* getEntities(): [...this.entities], a new array of the members, in the
\* order the set is walked in.
getEntities ==
    /\ groupCalls + viewCalls < MaxViewCalls
    /\ \E order \in Orders(entities) :
         returned' = [ref |-> "copy", items |-> order, members |-> entities,
                      written |-> FALSE]
    /\ viewCalls' = viewCalls + 1
    /\ UNCHANGED <<groupVars, modified>>
    /\ UNCHANGED <<snapVars, regVars, eventVars, prefabVars, overlayVars, queryVars, callVars>>

\* What the returned reference shows now.
Shown == IF returned.ref = "entities" THEN entities ELSE Range(returned.items)

\* The calling code adds e to the collection it was returned.
ReturnedPush(e) ==
    /\ groupCalls + viewCalls < MaxViewCalls
    /\ returned.ref # "none"
    /\ IF returned.ref = "entities"
       THEN /\ entities' = entities \cup {e}
            /\ returned' = [returned EXCEPT !.written = TRUE]
       ELSE /\ returned' = [returned EXCEPT !.items = Append(@, e), !.written = TRUE]
            /\ UNCHANGED entities
    /\ UNCHANGED <<onEntityAdded, onEntityRemoved, fired, heard, last, groupCalls>>
    /\ modified' = [before |-> entities, after |-> entities',
                    firedBefore |-> fired, firedAfter |-> fired']
    /\ viewCalls' = viewCalls + 1
    /\ UNCHANGED <<snapVars, regVars, eventVars, prefabVars, overlayVars, queryVars, callVars>>

OverlayValues == {Num(1), Num(2), Nil}

\* The Entity Store the members live in: every entity with an empty map.
RECURSIVE SpawnAll(_, _)
SpawnAll(w, n) == IF n = 0 THEN w ELSE SpawnAll(WorldSpawn(w), n - 1)

OverlayIdle ==
    /\ overlay = NewMap.f
    /\ recent = [c \in CompIds |-> [op |-> "none", value |-> Nil]]
    /\ overlayLast = [op |-> "none", c |-> 0, value |-> Nil, result |-> Nil,
                      recent |-> [op |-> "none", value |-> Nil],
                      before |-> [members |-> {}, fired |-> <<>>, store |-> NewWorld],
                      after |-> [members |-> {}, fired |-> <<>>, store |-> NewWorld]]
    /\ overlayCalls = 0

\* History: a call on the overlay and what it returned.
OverlayCalled(op, c, value, result) ==
    /\ overlayLast' = [op |-> op, c |-> c, value |-> value, result |-> result,
                       recent |-> recent[c],
                       before |-> [members |-> entities, fired |-> fired, store |-> world],
                       after |-> [members |-> entities', fired |-> fired', store |-> world']]
    /\ overlayCalls' = overlayCalls + 1

\* A slip of set: the value is written to the component maps of the members.
setOnMembers(c, value) ==
    /\ groupCalls + overlayCalls < MaxOverlayCalls
    /\ overlay' = MapSet(overlay, c, value)
    /\ world' = [world EXCEPT !.components =
                    [e \in DOMAIN world.components |->
                       IF e \in entities THEN MapSet(world.components[e], c, value)
                       ELSE world.components[e]]]
    /\ recent' = [recent EXCEPT ![c] = [op |-> "set", value |-> value]]
    /\ UNCHANGED <<groupVars, snapVars, regVars, eventVars, viewVars, queryVars, callVars>>
    /\ UNCHANGED <<prefabs, made, spawned, extended, prefabCalls>>
    /\ OverlayCalled("set", c, value, Nil)

\* group.set(c, value): this.components.set(c, value).
set(c, value) ==
    /\ groupCalls + overlayCalls < MaxOverlayCalls
    /\ overlay' = MapSet(overlay, c, value)
    /\ recent' = [recent EXCEPT ![c] = [op |-> "set", value |-> value]]
    /\ UNCHANGED <<groupVars, snapVars, regVars, eventVars, prefabVars, viewVars, queryVars, callVars>>
    /\ OverlayCalled("set", c, value, Nil)

\* group.get(c): this.components.get(c).
get(c) ==
    /\ groupCalls + overlayCalls < MaxOverlayCalls
    /\ UNCHANGED <<overlay, recent>>
    /\ UNCHANGED <<groupVars, snapVars, regVars, eventVars, prefabVars, viewVars, queryVars, callVars>>
    /\ OverlayCalled("get", c, Nil, IF c \in DOMAIN overlay THEN overlay[c] ELSE Nil)

\* group.has(c): this.components.has(c).
has(c) ==
    /\ groupCalls + overlayCalls < MaxOverlayCalls
    /\ UNCHANGED <<overlay, recent>>
    /\ UNCHANGED <<groupVars, snapVars, regVars, eventVars, prefabVars, viewVars, queryVars, callVars>>
    /\ OverlayCalled("has", c, Nil, c \in DOMAIN overlay)

\* group.remove(c): this.components.delete(c), which returns whether the
\* key was there.
remove(c) ==
    /\ groupCalls + overlayCalls < MaxOverlayCalls
    /\ overlay' = MapDelete(overlay, c)
    /\ recent' = [recent EXCEPT ![c] = [op |-> "remove", value |-> Nil]]
    /\ UNCHANGED <<groupVars, snapVars, regVars, eventVars, prefabVars, viewVars, queryVars, callVars>>
    /\ OverlayCalled("remove", c, Nil, c \in DOMAIN overlay)

(***************************************************************************)
(* Query.  A query is its descriptor: the list of the required component   *)
(* ids and the set of the excluded ones.  with and without make a new      *)
(* query and leave the receiver as it is.                                  *)
(***************************************************************************)
\* world.query(...ids)
NewQuery(ids) == [required |-> ids, excluded |-> {}]

\* A slip of with: the new query starts without the exclusions.
withForgetsExcluded(q, ids) == [required |-> q.required \o ids, excluded |-> {}]

\* query.with(...ids)
with(q, ids) == [required |-> q.required \o ids, excluded |-> q.excluded]

\* query.without(...ids)
without(q, ids) == [required |-> q.required, excluded |-> q.excluded \cup Range(ids)]

\* Whether an entity that holds a value for the ids in held, and no other,
\* matches the query.
Matches(q, held) ==
    /\ \A c \in Range(q.required) : c \in held
    /\ \A c \in q.excluded : c \notin held

NoQueryCall ==
    [op |-> "none", receiver |-> NewQuery(<<>>), ids |-> <<>>, result |-> NewQuery(<<>>),
     before |-> [op |-> "none", receiver |-> NewQuery(<<>>), result |-> NewQuery(<<>>)]]

QueryIdle ==
    /\ queries = {}
    /\ queryLast = NoQueryCall

\* The base query: world.query() or world.query(c).
QueryInit ==
    /\ \E ids \in {<<>>} \cup {<<c>> : c \in QueryComps} :
         queries = {[q |-> NewQuery(ids), withs |-> Range(ids), withouts |-> {}]}
    /\ queryLast = NoQueryCall

\* History: a with/without call, and the call before it.
QueryCalled(op, receiver, c, result) ==
    queryLast' = [op |-> op, receiver |-> receiver, ids |-> <<c>>, result |-> result,
                  before |-> [op |-> queryLast.op, receiver |-> queryLast.receiver,
                              result |-> queryLast.result]]

\* built.q.with(c): the new query is kept next to the ones made before.
QueryWith(built, c) ==
    LET new == [q |-> with(built.q, <<c>>), withs |-> built.withs \cup {c},
                withouts |-> built.withouts]
    IN  /\ Cardinality(queries \cup {new}) <= MaxQueries
        /\ queries' = queries \cup {new}
        /\ QueryCalled("with", built.q, c, new.q)
        /\ UNCHANGED outsideQuery

\* built.q.without(c)
QueryWithout(built, c) ==
    LET new == [q |-> without(built.q, <<c>>), withs |-> built.withs,
                withouts |-> built.withouts \cup {c}]
    IN  /\ Cardinality(queries \cup {new}) <= MaxQueries
        /\ queries' = queries \cup {new}
        /\ QueryCalled("without", built.q, c, new.q)
        /\ UNCHANGED outsideQuery

(***************************************************************************)
(* Group (group.ts) with listeners that call the group back.  A call of    *)
(* addEntity/removeEntity that fires is running until fire has called      *)
(* every listener; a listener sees the group as it is when it is called,   *)
(* and may make the call it is told of once more.                          *)
(***************************************************************************)
CallIdle == running = <<>>

\* The condition under which the call changes the set and fires.
Changes(op, e) == IF op = "addEntity" THEN e \notin entities ELSE e \in entities

\* this.entities.add(e) / this.entities.delete(e)
Updated(op, e) == IF op = "addEntity" THEN entities \cup {e} ELSE entities \ {e}

EventOf(op) == IF op = "addEntity" THEN "added" ELSE "removed"

ListenersOf(op) == IF op = "addEntity" THEN onEntityAdded ELSE onEntityRemoved

\* Who may call: the calling code when no call is running, or the listener
\* that is being called, with the call it is told of.
MayCall(op, e) ==
    \/ running = <<>> /\ groupCalls < MaxGroupCalls
    \/ /\ running # <<>>
       /\ running[Len(running)].calling
       /\ running[Len(running)].op = op
       /\ running[Len(running)].e = e
       /\ Len(running) < MaxDepth

\* The calls that are running, the listener that called having made its call.
Callers ==
    IF running = <<>> THEN running
    ELSE [running EXCEPT ![Len(running)].calling = FALSE]

\* A slip of addEntity/removeEntity: the listeners are called first, the set
\* is changed when they have returned.
CallGroupFiresFirst(op, e) ==
    /\ MayCall(op, e)
    /\ IF Changes(op, e)
       THEN /\ fired' = Append(fired, [ev |-> EventOf(op), arg |-> e])
            /\ \E order \in Orders(ListenersOf(op).connections) :
                 running' = Append(Callers, [op |-> op, e |-> e, todo |-> order,
                                             calling |-> FALSE, late |-> TRUE])
       ELSE /\ running' = Callers
            /\ UNCHANGED fired
    /\ groupCalls' = IF running = <<>> THEN groupCalls + 1 ELSE groupCalls
    /\ UNCHANGED <<entities, onEntityAdded, onEntityRemoved, heard, last>>
    /\ UNCHANGED outsideCall

\* group.addEntity(e) / group.removeEntity(e), up to the first listener.
CallGroup(op, e) ==
    /\ MayCall(op, e)
    /\ IF Changes(op, e)
       THEN /\ entities' = Updated(op, e)
            /\ fired' = Append(fired, [ev |-> EventOf(op), arg |-> e])
            /\ \E order \in Orders(ListenersOf(op).connections) :
                 running' = Append(Callers, [op |-> op, e |-> e, todo |-> order,
                                             calling |-> FALSE, late |-> FALSE])
       ELSE /\ running' = Callers
            /\ UNCHANGED <<entities, fired>>
    /\ groupCalls' = IF running = <<>> THEN groupCalls + 1 ELSE groupCalls
    /\ UNCHANGED <<onEntityAdded, onEntityRemoved, heard, last>>
    /\ UNCHANGED outsideCall

\* fire calls the next listener: it notes what hasEntity(e) and getEntities()
\* give, and then returns (again = FALSE) or makes the call once more.
Listen(again) ==
    /\ running # <<>>
    /\ LET top == running[Len(running)]
       IN  /\ top.todo # <<>>
           /\ ~top.calling
           /\ heard' = Append(heard, [ev |-> EventOf(top.op), conn |-> Head(top.todo),
                                      arg |-> top.e, member |-> hasEntity(top.e),
                                      listed |-> top.e \in Range(CHOOSE o \in Orders(entities) : TRUE),
                                      again |-> again])
           /\ running' = [running EXCEPT ![Len(running)].todo = Tail(top.todo),
                                         ![Len(running)].calling = again]
    /\ UNCHANGED <<entities, onEntityAdded, onEntityRemoved, fired, last, groupCalls>>
    /\ UNCHANGED outsideCall

\* fire has called every listener: the call returns.
Return ==
    /\ running # <<>>
    /\ LET top == running[Len(running)]
       IN  /\ top.todo = <<>>
           /\ ~top.calling
           /\ entities' = IF top.late THEN Updated(top.op, top.e) ELSE entities
    /\ running' = SubSeq(running, 1, Len(running) - 1)
    /\ UNCHANGED <<onEntityAdded, onEntityRemoved, fired, heard, last, groupCalls>>
    /\ UNCHANGED outsideCall

(***************************************************************************)
(* Claims about Group membership and its notifications.                    *)
(***************************************************************************)
\* The notifications a call of addEntity/removeEntity has fired, and what the
\* listeners connected to the event have heard of them.
FiredByLast == SubSeq(fired, Len(last.fired) + 1, Len(fired))
HeardByLast == SubSeq(heard, Len(last.heard) + 1, Len(heard))

\* C1: addEntity(e) on a non-member makes e a member and fires onEntityAdded
\* exactly once, with e; on a member it changes nothing and fires nothing.
\* Hence addEntity(e) right after addEntity(e) fires one "added" in total.
C1_AddOnce ==
    last.op = "addEntity" =>
        IF last.e \notin last.members
        THEN /\ entities = last.members \cup {last.e}
             /\ FiredByLast = <<[ev |-> "added", arg |-> last.e]>>
             /\ Len(HeardByLast) = Cardinality(last.added)
             /\ {HeardByLast[i].conn : i \in DOMAIN HeardByLast} = last.added
             /\ \A i \in DOMAIN HeardByLast :
                    HeardByLast[i].ev = "added" /\ HeardByLast[i].arg = last.e
        ELSE /\ entities = last.members
             /\ FiredByLast = <<>>
             /\ HeardByLast = <<>>

C1_AddTwice ==
    (/\ last.op = "addEntity"
     /\ last'.op = "addEntity"
     /\ last'.e = last.e
     /\ groupCalls' = groupCalls + 1)
        => Len(fired') - Len(last.fired) = (IF last.e \in last.members THEN 0 ELSE 1)

C1_AddEntity == [](C1_AddOnce) /\ [][C1_AddTwice]_vars

\* addEntity(e) has just been repeated on a member, with a listener connected
\* that heard the one notification of the first call.
C1_Witness ==
    /\ last.op = "addEntity"
    /\ last.e \in last.members
    /\ fired = <<[ev |-> "added", arg |-> last.e]>>
    /\ heard = <<[ev |-> "added", conn |-> 0, arg |-> last.e]>>
    /\ groupCalls = 2

\* C2: removeEntity(e) on a member removes e and fires onEntityRemoved exactly
\* once, with e; on a non-member the membership is unchanged and neither
\* event is fired.
C2_RemoveEntity ==
    last.op = "removeEntity" =>
        IF last.e \in last.members
        THEN /\ entities = last.members \ {last.e}
             /\ FiredByLast = <<[ev |-> "removed", arg |-> last.e]>>
             /\ Len(HeardByLast) = Cardinality(last.removed)
             /\ {HeardByLast[i].conn : i \in DOMAIN HeardByLast} = last.removed
             /\ \A i \in DOMAIN HeardByLast :
                    HeardByLast[i].ev = "removed" /\ HeardByLast[i].arg = last.e
        ELSE /\ entities = last.members
             /\ FiredByLast = <<>>
             /\ HeardByLast = <<>>

\* A member has just been removed while a listener was connected, and a
\* non-member has been "removed" before.
C2_Witness ==
    /\ last.op = "removeEntity"
    /\ last.e \in last.members
    /\ Len(HeardByLast) = 1
    /\ groupCalls = 3
    /\ Len(fired) = 2

\* C3: for every entity e the fires for e alternate added, removed, added, ...
\* starting with added, and (added fires) - (removed fires) is 1 if e is a
\* member and 0 otherwise.
FiresOf(e, name) == Cardinality({i \in DOMAIN fired : fired[i].arg = e /\ fired[i].ev = name})

C3_OneFirePerChange ==
    \A e \in EntityIds :
        LET s == SelectArg(fired, e) IN
            /\ \A i \in DOMAIN s : s[i].ev = (IF i % 2 = 1 THEN "added" ELSE "removed")
            /\ FiresOf(e, "added") - FiresOf(e, "removed") = (IF hasEntity(e) THEN 1 ELSE 0)

\* An entity was added, removed and added again.
C3_Witness ==
    \E e \in EntityIds :
        /\ Len(SelectArg(fired, e)) = 3
        /\ hasEntity(e)

(***************************************************************************)
(* Claims about createSnapshot.  They compare what the last call returned  *)
(* with the store and the arguments the call was given.                    *)
(***************************************************************************)
Requested == Range(captured.order)
FilterIds == Range(captured.components.ids)
Recorded == DeepStates(heap, snapshot.entityStates)
AllHaveMaps == \A e \in Requested : e \in DOMAIN captured.store

C6_FilteredCapture ==
    (captured.calls > 0 /\ Filtering(captured.components) /\ AllHaveMaps) =>
        /\ snapshot.ret = "snapshot"
        /\ DOMAIN Recorded =
              {e \in Requested : DOMAIN captured.store[e] \cap FilterIds # {}}
        /\ \A e \in DOMAIN Recorded :
              /\ DOMAIN Recorded[e] = DOMAIN captured.store[e] \cap FilterIds
              /\ \A c \in DOMAIN Recorded[e] : Recorded[e][c] = captured.store[e][c]

\* C7: when the snapshot's components field is defined, every component id
\* recorded for an entity is one of components.
C7_RecordedWithinFilter ==
    (snapshot.ret = "snapshot" /\ snapshot.components.given) =>
        \A e \in DOMAIN Recorded : DOMAIN Recorded[e] \subseteq Range(snapshot.components.ids)

\* C8: with no filter and a Map for every entity of the input set, the
\* snapshot records exactly the entities of the input set, each with the
\* components and values of its Map.
C8_FullCapture ==
    (captured.calls > 0 /\ ~captured.components.given /\ AllHaveMaps) =>
        /\ snapshot.ret = "snapshot"
        /\ DOMAIN Recorded = Requested
        /\ \A e \in DOMAIN Recorded : Recorded[e] = captured.store[e]

\* C9: a snapshot shares nothing with the store: as long as only the store
\* is written to after the capture, the snapshot records what it recorded
\* when it was returned, and as long as only the snapshot is written to,
\* the store holds what it held.
C9_ValueIndependent ==
    snapshot.ret = "snapshot" =>
        /\ "snapshot" \notin touched => Recorded = captured.recorded
        /\ "source" \notin touched => DeepStore = captured.store

\* After the capture a table of the store was written in place, and the
\* snapshot still records the table as it was.
C9_Witness ==
    /\ snapshot.ret = "snapshot"
    /\ touched = {"source"}
    /\ \E e \in DOMAIN Recorded : \E c \in DOMAIN Recorded[e] :
          /\ Recorded[e][c].k = "table"
          /\ c \in DOMAIN DeepStore[e]
          /\ DeepStore[e][c].k = "table"
          /\ DeepStore[e][c] # Recorded[e][c]
          /\ Recorded[e][c] = captured.store[e][c]

(***************************************************************************)
(* Claims about the component registry.                                    *)
(***************************************************************************)
\* C10: component(name) with a registered name raises and returns no id,
\* and leaves the registry and the counter as they were, so the next
\* registration that succeeds takes the id it would have taken anyway.
C10_FailedCall ==
    (registered.outcome # "none" /\ registered.name \in DOMAIN registered.registry) =>
        /\ registered.outcome = "error"
        /\ componentRegistry = registered.registry
        /\ nextComponentId = registered.nextComponentId

C10_NextRegistration ==
    (/\ registered.outcome = "error"
     /\ registered'.calls = registered.calls + 1
     /\ registered'.outcome = "id")
        => registered'.id = registered.nextComponentId

C10_DuplicateIsFatal == [](C10_FailedCall) /\ [][C10_NextRegistration]_vars

\* A name was registered, registering it again failed, and another name was
\* registered after that.
C10_Witness ==
    /\ registered.outcome = "id"
    /\ registered.id = 2
    /\ registered.calls = 3
    /\ Cardinality(DOMAIN componentRegistry) = 2

\* C11: the registry binds distinct names to distinct ids; a name keeps the
\* id it was given; the ids are issued in increasing order from 1.
C11_DistinctIds ==
    /\ \A a, b \in DOMAIN componentRegistry :
          componentRegistry[a] = componentRegistry[b] => a = b
    /\ {componentRegistry[a] : a \in DOMAIN componentRegistry} = 1..(nextComponentId - 1)

C11_IdsKept ==
    /\ \A a \in DOMAIN componentRegistry :
          a \in DOMAIN componentRegistry' /\ componentRegistry'[a] = componentRegistry[a]
    /\ \A a \in DOMAIN componentRegistry' \ DOMAIN componentRegistry :
          /\ componentRegistry'[a] = Cardinality(DOMAIN componentRegistry) + 1
          /\ \A b \in DOMAIN componentRegistry : componentRegistry[b] < componentRegistry'[a]

C11_UniqueIncreasingIds == [](C11_DistinctIds) /\ [][C11_IdsKept]_vars

\* Three names are registered, with a failed call among the calls.
C11_Witness ==
    /\ Cardinality(DOMAIN componentRegistry) = 3
    /\ registered.calls = 4
    /\ nextComponentId = 4

(***************************************************************************)
(* Claims about an Event.  The connections are numbered in the order they  *)
(* were made, so connection order is the ascending order of the ids.       *)
(***************************************************************************)
InvokedIds == [i \in 1..Len(fireLast.invoked) |-> fireLast.invoked[i].conn]

\* C12: fire(args) calls every callback connected when it is called exactly
\* once, with args, calls no callback that was disconnected before, and
\* calls them in the order they were connected.
C12_FireInConnectionOrder ==
    fireLast.n > 0 =>
       /\ InvokedIds = Ascending(fireLast.connections)
       /\ fireLast.connections \cap fireLast.gone = {}
       /\ \A i \in 1..Len(fireLast.invoked) :
            /\ fireLast.invoked[i].arg = fireLast.arg
            /\ fireLast.invoked[i].fn = callbacks[fireLast.invoked[i].conn].fn

\* C13: Disconnect removes the connection of its handle and no other, the
\* count goes down by one; a Disconnect of a handle whose connection is gone
\* changes nothing; disconnectAll leaves no connection; a removed connection
\* is never called again, and a fire on no connections calls nothing.
C13_DisconnectExactlyOne ==
    /\ eventLast.op = "Disconnect" =>
         /\ eventLast.after = eventLast.before \ {eventLast.id}
         /\ Cardinality(eventLast.after) =
              Cardinality(eventLast.before) - (IF eventLast.id \in eventLast.before THEN 1 ELSE 0)
    /\ eventLast.op = "disconnectAll" => Cardinality(eventLast.after) = 0
    /\ event.connections \cap gone = {}
    /\ fireLast.n > 0 =>
         /\ Range(InvokedIds) = fireLast.connections
         /\ Len(InvokedIds) = Cardinality(fireLast.connections)
         /\ fireLast.connections \cap fireLast.gone = {}

\* One of two connections of the same function was disconnected, twice, and
\* the fire after it called the other one only.
C13_Witness ==
    /\ eventLast.op = "Disconnect"
    /\ eventLast.id \notin eventLast.before
    /\ eventLast.id \in gone
    /\ fireLast.n > 0
    /\ fireLast.connections = eventLast.after
    /\ \E other \in fireLast.connections :
         /\ callbacks[other].fn = callbacks[eventLast.id].fn
         /\ InvokedIds = <<other>>

PairIds(pairs) == {pairs[i][1] : i \in DOMAIN pairs}

\* The value of the last pair for c in the list.
LastValue(pairs, c) ==
    LET i == CHOOSE i \in DOMAIN pairs :
                /\ pairs[i][1] = c
                /\ \A j \in DOMAIN pairs : pairs[j][1] = c => j <= i
    IN  pairs[i][2]

\* C15: spawn(overrides) adds exactly one entity, new to the world; its
\* components are the ids of template ++ overrides, each with the value of
\* its last pair in that list; no other entity changes.
C15_SpawnLastPairWins ==
    spawned.prefab > 0 =>
       LET all == made[spawned.prefab].components \o spawned.overrides
           e == spawned.entity
           after == spawned.after
       IN  /\ e \notin spawned.before.live
           /\ after.live = spawned.before.live \cup {e}
           /\ \A other \in spawned.before.live :
                after.components[other] = spawned.before.components[other]
           /\ DOMAIN after.components[e] = PairIds(all)
           /\ \A c \in PairIds(all) : after.components[e][c] = LastValue(all, c)
           /\ \A c \in PairIds(spawned.overrides) :
                after.components[e][c] = LastValue(spawned.overrides, c)

\* A spawn whose override is for a component of the template, with another
\* value, from a template of two pairs.
C15_Witness ==
    /\ spawned.prefab > 0
    /\ Len(prefabs[spawned.prefab]) = 2
    /\ Len(spawned.overrides) = 1
    /\ spawned.overrides[1][1] \in PairIds(prefabs[spawned.prefab])
    /\ LastValue(prefabs[spawned.prefab], spawned.overrides[1][1]) # spawned.overrides[1][2]
    /\ spawned.entity \in world.live

\* C16: extend(additional) makes a new prefab whose pairs are the pairs of
\* the receiver followed by the additional pairs, all of them; no prefab
\* that exists changes, so a spawn from the receiver gives what it gave
\* before; a spawn from the extended prefab gives a component of both lists
\* the additional value, unless an override is given for it.
C16_ExtendConcatenates ==
    /\ \A p \in DOMAIN prefabs : prefabs[p] = made[p].components
    /\ \A p \in DOMAIN made :
         made[p].from > 0 =>
            made[p].components = made[made[p].from].components \o made[p].additional
    /\ extended.prefab > 0 =>
         /\ Len(prefabs) > Len(extended.before)
         /\ \A p \in DOMAIN extended.before : prefabs[p] = extended.before[p]
         /\ prefabs[Len(extended.before) + 1] =
               extended.before[extended.prefab] \o extended.additional
    /\ (spawned.prefab > 0 /\ made[spawned.prefab].from > 0) =>
         \A c \in (PairIds(made[made[spawned.prefab].from].components)
                     \cap PairIds(made[spawned.prefab].additional))
                  \ PairIds(spawned.overrides) :
            world.components[spawned.entity][c] = LastValue(made[spawned.prefab].additional, c)

\* A prefab was extended by a pair for a component it has, with another
\* value, and an entity was spawned from the extended prefab.
C16_Witness ==
    /\ extended.prefab > 0
    /\ spawned.prefab = Len(extended.before) + 1
    /\ spawned.overrides = <<>>
    /\ Len(extended.additional) = 1
    /\ extended.additional[1][1] \in PairIds(prefabs[extended.prefab])
    /\ LastValue(prefabs[extended.prefab], extended.additional[1][1]) # extended.additional[1][2]
    /\ Len(prefabs[spawned.prefab]) = Len(prefabs[extended.prefab]) + 1

(***************************************************************************)
(* Claims about the member list and the overlay of a Group.                *)
(***************************************************************************)
\* C17: what getEntities returns holds exactly the members of that moment,
\* each once; it shows the same members after later addEntity/removeEntity
\* calls; a write to it by the calling code changes no membership and fires
\* no notification.
C17_PointInTimeCopy ==
    /\ (returned.ref # "none" /\ ~returned.written) =>
          /\ Shown = returned.members
          /\ Range(returned.items) = returned.members
          /\ Len(returned.items) = Cardinality(returned.members)
    /\ modified.after = modified.before
    /\ modified.firedAfter = modified.firedBefore

\* A list was returned, the membership changed after that, and the calling
\* code wrote to the list.
C17_Witness ==
    /\ returned.ref = "copy"
    /\ returned.written
    /\ returned.members # {}
    /\ entities # returned.members
    /\ Range(returned.items) # entities
    /\ modified.before = entities

\* C18: a set/get/has/remove call changes no membership, fires nothing and
\* writes no component map of the Entity Store; an addEntity/removeEntity
\* call changes neither the overlay nor a component map of the Entity Store.
C18_OverlayCallFrame ==
    overlayLast.op # "none" =>
       /\ overlayLast.after.members = overlayLast.before.members
       /\ overlayLast.after.fired = overlayLast.before.fired
       /\ overlayLast.after.store = overlayLast.before.store

C18_MembershipCallFrame ==
    groupCalls' # groupCalls => (overlay' = overlay /\ world' = world)

C20_HasAfterSet ==
    LET present == overlayLast.recent.op = "set"
    IN  /\ overlayLast.op = "has" => overlayLast.result = present
        /\ overlayLast.op = "remove" => overlayLast.result = present
        /\ overlayLast.op = "get" =>
             overlayLast.result = IF present THEN overlayLast.recent.value ELSE Nil

(***************************************************************************)
(* Claims about Query.                                                     *)
(***************************************************************************)
\* C19: an entity matches a query iff it holds every id given to the base
\* query and to the with calls of its chain and none of the ids given to
\* the without calls, whatever the order of the calls; an id given to both
\* makes the query match nothing; with and without leave every query built
\* before as it was.
C19_QueryMatching ==
    /\ \A built \in queries : \A held \in SUBSET QueryComps :
         /\ Matches(built.q, held) <=>
               (built.withs \subseteq held /\ built.withouts \cap held = {})
         /\ built.withs \cap built.withouts # {} => ~Matches(built.q, held)
    /\ \A a, b \in queries :
         (a.withs = b.withs /\ a.withouts = b.withouts) =>
            \A held \in SUBSET QueryComps : Matches(a.q, held) <=> Matches(b.q, held)
    /\ queryLast.op # "none" =>
         /\ \E built \in queries : built.q = queryLast.receiver
         /\ \E built \in queries : built.q = queryLast.result
         /\ queryLast.op = "with" => queryLast.result.excluded = queryLast.receiver.excluded
         /\ queryLast.op = "without" => queryLast.result.required = queryLast.receiver.required

C19_ReceiverKept == \A built \in queries : built \in queries'

C19_QueryChains == [](C19_QueryMatching) /\ [][C19_ReceiverKept]_vars

\* An id was required and then another excluded, and the same two calls
\* were made in the other order on the same base query.
C19_Witness ==
    /\ queryLast.op = "with"
    /\ queryLast.before.op = "without"
    /\ queryLast.result = queryLast.before.result
    /\ queryLast.receiver.excluded # {}
    /\ queryLast.before.receiver.excluded = {}
    /\ queryLast.before.receiver.required = queryLast.result.required
    /\ Range(queryLast.result.required) \cap queryLast.result.excluded = {}

(***************************************************************************)
(* Claims about listeners that call the group or the event back.           *)
(***************************************************************************)
\* C21: a listener of onEntityAdded called for e finds e a member, in
\* hasEntity and in getEntities; a listener of onEntityRemoved called for e
\* finds e no member; a listener that makes the same call once more causes
\* no notification: no call fires while another is running, and there are
\* no more notifications than calls of the calling code.
C21_UpdatedBeforeNotified ==
    /\ \A i \in DOMAIN heard :
         /\ heard[i].ev = "added" => (heard[i].member /\ heard[i].listed)
         /\ heard[i].ev = "removed" => (~heard[i].member /\ ~heard[i].listed)
    /\ Len(running) <= 1
    /\ Len(fired) <= groupCalls

\* A listener of each event was called and made the same call once more,
\* and every call has returned.
C21_Witness ==
    /\ running = <<>>
    /\ \E i \in DOMAIN heard : heard[i].ev = "added" /\ heard[i].again
    /\ \E i \in DOMAIN heard : heard[i].ev = "removed" /\ heard[i].again
    /\ Len(fired) = 2

\* C22: the id of a connection is never used again, not after disconnectAll
\* either: no connection has an id that was removed before; Disconnect on a
\* handle whose connection is gone leaves every connection as it is; and
\* getConnectionCount is the number of connect calls whose connection has
\* not been removed.
C22_IdsNeverReused ==
    /\ event.connections \cap gone = {}
    /\ event.connections = DOMAIN callbacks \ gone
    /\ getConnectionCount(event) = Cardinality(DOMAIN callbacks) - Cardinality(gone)
    /\ (eventLast.op = "Disconnect" /\ eventLast.id \notin eventLast.before)
         => eventLast.after = eventLast.before

\* Disconnect on a handle whose connection is gone, after a disconnectAll
\* that was followed by a new connection, which is still there.
C22_Witness ==
    /\ eventLast.op = "Disconnect"
    /\ eventLast.id \in gone
    /\ eventLast.id \notin eventLast.before
    /\ eventLast.after # {}
    /\ \A id \in eventLast.after : id > eventLast.id
    /\ \E k \in DOMAIN promises : promises[k].cleared
    /\ getConnectionCount(event) = 1

\* C23: a callback that disconnects itself while fire calls it keeps no
\* other callback from being called: every connection there when fire was
\* called is called exactly once in that fire, also when several callbacks
\* of wait() disconnect themselves in it; after the fire the connections of
\* the calling code are left.
C23_SelfDisconnectKeepsOthers ==
    fireLast.n > 0 =>
      /\ \A id \in fireLast.connections :
           Cardinality({i \in DOMAIN fireLast.invoked : fireLast.invoked[i].conn = id}) = 1
      /\ Len(fireLast.invoked) = Cardinality(fireLast.connections)
      /\ fireLast.after = {id \in fireLast.connections : callbacks[id].wait = 0}

\* A fire with two callbacks of wait() and a callback of the calling code,
\* in which a callback of wait() was called first and the callback of the
\* calling code last.
C23_Witness ==
    /\ fireLast.n > 0
    /\ Cardinality({id \in fireLast.connections : callbacks[id].wait # 0}) >= 2
    /\ Len(fireLast.invoked) = 3
    /\ callbacks[fireLast.invoked[1].conn].wait # 0
    /\ callbacks[fireLast.invoked[2].conn].wait # 0
    /\ callbacks[fireLast.invoked[3].conn].wait = 0

(***************************************************************************)
(* The specifications: the group and its listeners; createSnapshot on the  *)
(* stores and arguments of SnapInit; the component registry; an Event on   *)
(* its own; prefabs on a world; a group whose member list is handed out;   *)
(* a group with an overlay; queries chained from a base query.             *)
(***************************************************************************)
Init ==
    /\ GroupInit /\ SnapIdle /\ RegInit
    /\ EventIdle /\ PrefabIdle /\ ViewIdle /\ OverlayIdle /\ QueryIdle /\ CallIdle

Next ==
    \/ \E e \in EntityIds : addEntity(e)
    \/ \E e \in EntityIds : removeEntity(e)
    \/ ConnectAdded
    \/ ConnectRemoved
    \/ \E id \in 0..(MaxConnections - 1) : DisconnectAdded(id)
    \/ \E id \in 0..(MaxConnections - 1) : DisconnectRemoved(id)

Spec == Init /\ [][Next]_vars

SnapshotInit ==
    /\ GroupInit /\ SnapInit /\ RegInit
    /\ EventIdle /\ PrefabIdle /\ ViewIdle /\ OverlayIdle /\ QueryIdle /\ CallIdle

SnapshotNext == createSnapshot

SnapshotSpec == SnapshotInit /\ [][SnapshotNext]_vars

IndependenceInit ==
    /\ GroupInit /\ IndependenceSnapInit /\ RegInit
    /\ EventIdle /\ PrefabIdle /\ ViewIdle /\ OverlayIdle /\ QueryIdle /\ CallIdle

IndependenceNext ==
    \/ createSnapshot
    \/ \E e \in SnapEntityIds, c \in CompIds : SourceMapSet(e, c)
    \/ \E e \in SnapEntityIds, c \in CompIds : SourceMapDelete(e, c)
    \/ \E r \in DOMAIN heap, val \in {Num(0), Nil} : SourceValueWrite(r, val)
    \/ \E e \in SnapEntityIds, c \in CompIds : SnapshotMapSet(e, c)
    \/ \E e \in SnapEntityIds, c \in CompIds : SnapshotMapDelete(e, c)
    \/ \E r \in DOMAIN heap, val \in {Num(0), Nil} : SnapshotValueWrite(r, val)

IndependenceSpec == IndependenceInit /\ [][IndependenceNext]_vars

RegistryInit ==
    /\ GroupInit /\ SnapIdle /\ RegInit
    /\ EventIdle /\ PrefabIdle /\ ViewIdle /\ OverlayIdle /\ QueryIdle /\ CallIdle

RegistryNext == \E name \in ComponentNames : component(name)

RegistrySpec == RegistryInit /\ [][RegistryNext]_vars


EventInit ==
    /\ GroupInit /\ SnapIdle /\ RegInit
    /\ EventIdle /\ PrefabIdle /\ ViewIdle /\ OverlayIdle /\ QueryIdle /\ CallIdle

EventNext ==
    \/ \E fn \in Listeners : EventConnect(fn)
    \/ \E id \in 0..(MaxEventCalls - 1) : EventDisconnect(id)
    \/ EventDisconnectAll
    \/ EventWait
    \/ \E arg \in FireArgs : EventFire(arg)

EventSpec == EventInit /\ [][EventNext]_vars


PrefabsInit ==
    /\ GroupInit /\ SnapIdle /\ RegInit
    /\ EventIdle /\ PrefabInit /\ ViewIdle /\ OverlayIdle /\ QueryIdle /\ CallIdle

PrefabsNext ==
    \/ \E p \in DOMAIN prefabs : \E overrides \in PairLists : spawn(p, overrides)
    \/ \E p \in DOMAIN prefabs : \E additional \in PairLists : extend(p, additional)

PrefabsSpec == PrefabsInit /\ [][PrefabsNext]_vars


\* A group whose member list is handed out to the calling code.
MembersInit ==
    /\ GroupInit /\ SnapIdle /\ RegInit
    /\ EventIdle /\ PrefabIdle /\ ViewIdle /\ OverlayIdle /\ QueryIdle /\ CallIdle

MembersNext ==
    \/ \E e \in EntityIds : groupCalls + viewCalls < MaxViewCalls /\ addEntity(e)
    \/ \E e \in EntityIds : groupCalls + viewCalls < MaxViewCalls /\ removeEntity(e)
    \/ getEntities
    \/ \E e \in EntityIds : ReturnedPush(e)

MembersSpec == MembersInit /\ [][MembersNext]_vars

\* A group with an overlay, its members living in an Entity Store.
OverlayInit ==
    /\ GroupInit /\ SnapIdle /\ RegInit /\ EventIdle /\ ViewIdle /\ OverlayIdle
    /\ QueryIdle /\ CallIdle
    /\ world = SpawnAll(NewWorld, MaxEntity)
    /\ prefabs = <<>>
    /\ made = <<>>
    /\ spawned = [prefab |-> 0, overrides |-> <<>>, entity |-> 0, before |-> NewWorld,
                  after |-> NewWorld]
    /\ extended = [prefab |-> 0, additional |-> <<>>, before |-> <<>>]
    /\ prefabCalls = 0

OverlayNext ==
    \/ \E e \in EntityIds : groupCalls + overlayCalls < MaxOverlayCalls /\ addEntity(e)
    \/ \E e \in EntityIds : groupCalls + overlayCalls < MaxOverlayCalls /\ removeEntity(e)
    \/ \E c \in CompIds : \E value \in OverlayValues : set(c, value)
    \/ \E c \in CompIds : get(c)
    \/ \E c \in CompIds : has(c)
    \/ \E c \in CompIds : remove(c)

OverlaySpec == OverlayInit /\ [][OverlayNext]_vars


\* The queries chained from one base query.
QueriesInit ==
    /\ GroupInit /\ SnapIdle /\ RegInit /\ EventIdle /\ PrefabIdle /\ ViewIdle /\ OverlayIdle
    /\ QueryInit /\ CallIdle

QueriesNext ==
    \/ \E built \in queries : \E c \in QueryComps : QueryWith(built, c)
    \/ \E built \in queries : \E c \in QueryComps : QueryWithout(built, c)

QueriesSpec == QueriesInit /\ [][QueriesNext]_vars


\* A group whose listeners call it back; the listeners are connected before
\* the first call.
ReentryInit ==
    /\ GroupInit /\ SnapIdle /\ RegInit
    /\ EventIdle /\ PrefabIdle /\ ViewIdle /\ OverlayIdle /\ QueryIdle /\ CallIdle

ReentryNext ==
    \/ \E op \in {"addEntity", "removeEntity"} : \E e \in EntityIds : CallGroup(op, e)
    \/ \E again \in BOOLEAN : Listen(again)
    \/ Return
    \/ groupCalls = 0 /\ ConnectAdded
    \/ groupCalls = 0 /\ ConnectRemoved

ReentrySpec == ReentryInit /\ [][ReentryNext]_vars

=============================================================================
